---- MODULE Spec2Model ----
(***************************************************************************)
(* A model of backend/voice_recognition_service.py: the feature extractor, *)
(* enrollment, verification and the voice-activity check.                  *)
(*                                                                         *)
(* A Python str is a sequence of one-character strings, a bytes object a   *)
(* sequence of integers 0..255.  A call either returns a value or raises:  *)
(* both are records, [raised |-> FALSE, value |-> v] and                   *)
(* [raised |-> TRUE, type |-> t, msg |-> m], where a message is the        *)
(* sequence of the pieces an f-string concatenates.                        *)
(***************************************************************************)
EXTENDS Integers, Sequences, FiniteSets, TLC

Returned(v) == [raised |-> FALSE, value |-> v]

Raised(t, m) == [raised |-> TRUE, type |-> t, msg |-> m]

----------------------------------------------------------------------------
(* base64.b64decode(s) with validate=False, as binascii.a2b_base64 does it *)

B64Alphabet ==
  << "A","B","C","D","E","F","G","H","I","J","K","L","M","N","O","P",
     "Q","R","S","T","U","V","W","X","Y","Z","a","b","c","d","e","f",
     "g","h","i","j","k","l","m","n","o","p","q","r","s","t","u","v",
     "w","x","y","z","0","1","2","3","4","5","6","7","8","9","+","/" >>

B64Chars == { B64Alphabet[i] : i \in 1..Len(B64Alphabet) }

B64Value == [ c \in B64Chars |-> (CHOOSE i \in 1..Len(B64Alphabet) : B64Alphabet[i] = c) - 1 ]

\* The characters of the model's inputs that are ASCII but not base64 data.
AsciiOther == { "=", ",", ":", ";", " " }

\* A character outside ASCII: str.encode('ascii') refuses it.
NonAscii == "\\u00e9"

IsB64OrPad(c) == c \in B64Chars \/ c = "="

IsB64(c) == c \in B64Chars

\* The loop of a2b_base64 in closed form.  Characters outside the alphabet
\* are skipped.  A "=" ends the input when two data characters of the quad
\* are in and this is the second "=" in a row, or three are in; any other
\* "=" is skipped.  At the end of the input an unfinished quad is an error.
b64decode(s) ==
  IF \E i \in 1..Len(s) : s[i] = NonAscii
  THEN Raised("ValueError", <<"string argument should contain only ASCII characters">>)
  ELSE
    LET kept   == SelectSeq(s, IsB64OrPad)
        pads   == { i \in 1..Len(kept) : kept[i] = "=" }
        quad_pos(i) == (i - 1 - Cardinality({ j \in pads : j < i })) % 4
        stops  == { i \in pads : \/ quad_pos(i) = 3
                                 \/ quad_pos(i) = 2 /\ (i - 1) \in pads }
        stop   == IF stops = {} THEN Len(kept) + 1
                  ELSE CHOOSE i \in stops : \A j \in stops : i <= j
        data   == SelectSeq(SubSeq(kept, 1, stop - 1), IsB64)
        n      == Len(data)
        nbytes == 3 * (n \div 4) + (IF n % 4 = 0 THEN 0 ELSE (n % 4) - 1)
        v(k)   == B64Value[data[k]]
        byte(k) == LET q == 4 * ((k - 1) \div 3)
                       r == (k - 1) % 3
                   IN  IF r = 0 THEN v(q + 1) * 4 + (v(q + 2) \div 16)
                       ELSE IF r = 1 THEN (v(q + 2) % 16) * 16 + (v(q + 3) \div 4)
                       ELSE (v(q + 3) % 4) * 64 + v(q + 4)
    IN  IF stops = {} /\ n % 4 = 1
        THEN Raised("binascii.Error",
                    <<"Invalid base64-encoded string: number of data characters (",
                      ToString(n),
                      ") cannot be 1 more than a multiple of 4">>)
        ELSE IF stops = {} /\ n % 4 # 0
        THEN Raised("binascii.Error", <<"Incorrect padding">>)
        ELSE Returned([ k \in 1..nbytes |-> byte(k) ])

----------------------------------------------------------------------------
(* Floating point.  A Python float (an IEEE double) is modelled as a binary *)
(* floating-point number of MantissaBits significant bits with             *)
(* round-to-nearest-even after every operation: [k |-> "fin", m, e] is     *)
(* m * 2^e with m = 0 or 2^(MantissaBits-1) <= |m| < 2^MantissaBits;       *)
(* [k |-> "inf", m |-> +-1] and [k |-> "nan"] are the special values that  *)
(* numpy's float64 produces for x/0 and 0/0.  The exponent is unbounded:   *)
(* no value of the model comes near a double's range.                      *)

MantissaBits == 12

Pow2(n) == 2 ^ n

Abs(n) == IF n < 0 THEN -n ELSE n

Sign(n) == IF n < 0 THEN -1 ELSE 1

\* The number of bits of n > 0.
RECURSIVE BitLen(_)
BitLen(n) == IF n = 0 THEN 0 ELSE 1 + BitLen(n \div 2)

NaN == [k |-> "nan", m |-> 0, e |-> 0]

Inf(sign) == [k |-> "inf", m |-> sign, e |-> 0]

Zero == [k |-> "fin", m |-> 0, e |-> 0]

IsFinite(x) == x.k = "fin"

\* n * 2^e rounded to MantissaBits bits, ties to even.
Round(n, e) ==
  IF n = 0 THEN Zero
  ELSE
    LET a == Abs(n)
        L == BitLen(a)
    IN  IF L <= MantissaBits
        THEN [k |-> "fin", m |-> n * Pow2(MantissaBits - L), e |-> e - (MantissaBits - L)]
        ELSE
          LET s    == L - MantissaBits
              q    == a \div Pow2(s)
              r    == a % Pow2(s)
              half == Pow2(s - 1)
              up   == r > half \/ (r = half /\ q % 2 = 1)
              q1   == IF up THEN q + 1 ELSE q
          IN  IF q1 = Pow2(MantissaBits)
              THEN [k |-> "fin", m |-> Sign(n) * Pow2(MantissaBits - 1), e |-> e + s + 1]
              ELSE [k |-> "fin", m |-> Sign(n) * q1, e |-> e + s]

\* float(n) for an integer n.
FromInt(n) == Round(n, 0)

One == FromInt(1)

FNeg(x) == [x EXCEPT !.m = -x.m]

FMul(x, y) ==
  IF x.k = "nan" \/ y.k = "nan" THEN NaN
  ELSE IF x.k = "inf" \/ y.k = "inf"
  THEN IF x.m = 0 \/ y.m = 0 THEN NaN ELSE Inf(Sign(x.m) * Sign(y.m))
  ELSE Round(x.m * y.m, x.e + y.e)

\* x + y for finite x, y with x.e >= y.e.
AddAligned(x, y) ==
  IF y.m = 0 THEN x
  ELSE IF x.m = 0 THEN y
  ELSE IF x.e - y.e > MantissaBits + 1 THEN x
  ELSE Round(x.m * Pow2(x.e - y.e) + y.m, y.e)

FAdd(x, y) ==
  IF x.k = "nan" \/ y.k = "nan" THEN NaN
  ELSE IF x.k = "inf" /\ y.k = "inf" THEN (IF x.m = y.m THEN x ELSE NaN)
  ELSE IF x.k = "inf" THEN x
  ELSE IF y.k = "inf" THEN y
  ELSE IF x.e >= y.e THEN AddAligned(x, y) ELSE AddAligned(y, x)

FSub(x, y) == FAdd(x, FNeg(y))

FDiv(x, y) ==
  IF x.k = "nan" \/ y.k = "nan" THEN NaN
  ELSE IF x.k = "inf" THEN (IF y.k = "inf" THEN NaN ELSE Inf(x.m * Sign(y.m)))
  ELSE IF y.k = "inf" THEN Zero
  ELSE IF y.m = 0 THEN (IF x.m = 0 THEN NaN ELSE Inf(Sign(x.m)))
  ELSE IF x.m = 0 THEN Zero
  ELSE
    LET num    == Abs(x.m) * Pow2(MantissaBits + 2)
        den    == Abs(y.m)
        q      == num \div den
        sticky == IF num % den = 0 THEN 0 ELSE 1
    IN  Round(Sign(x.m) * Sign(y.m) * (2 * q + sticky),
              x.e - y.e - (MantissaBits + 2) - 1)

\* The largest r with r * r <= n, built bit by bit from the bit worth `bit`.
RECURSIVE ISqrtFrom(_, _, _)
ISqrtFrom(n, r, bit) ==
  IF bit = 0 THEN r
  ELSE IF (r + bit) * (r + bit) <= n THEN ISqrtFrom(n, r + bit, bit \div 2)
  ELSE ISqrtFrom(n, r, bit \div 2)

FSqrt(x) ==
  IF x.k = "nan" THEN NaN
  ELSE IF x.m < 0 THEN NaN
  ELSE IF x.k = "inf" THEN x
  ELSE IF x.m = 0 THEN Zero
  ELSE
    LET t      == IF (x.e - (MantissaBits + 3)) % 2 = 0
                  THEN MantissaBits + 3 ELSE MantissaBits + 4
        n      == x.m * Pow2(t)
        r      == ISqrtFrom(n, 0, Pow2(MantissaBits + 2))
        sticky == IF r * r = n THEN 0 ELSE 1
    IN  Round(2 * r + sticky, ((x.e - t) \div 2) - 1)

\* x < y, x <= y, ... as IEEE compares: every comparison with a NaN is false.
FLt(x, y) ==
  IF x.k = "nan" \/ y.k = "nan" THEN FALSE
  ELSE IF x.k = "inf" THEN (x.m < 0 /\ ~(y.k = "inf" /\ y.m < 0))
  ELSE IF y.k = "inf" THEN y.m > 0
  ELSE FSub(x, y).m < 0

FEq(x, y) ==
  IF x.k = "nan" \/ y.k = "nan" THEN FALSE
  ELSE IF x.k = "inf" \/ y.k = "inf" THEN (x.k = y.k /\ x.m = y.m)
  ELSE x = y

FLe(x, y) == FLt(x, y) \/ FEq(x, y)

FGe(x, y) == FLe(y, x)

FGt(x, y) == FLt(y, x)

----------------------------------------------------------------------------
(* numpy on a uint8 array.  Sums of bytes and of their squares are far     *)
(* below 2^53 and therefore exact in a double: they are kept as integers   *)
(* and rounded when they become a float.                                   *)

\* The sum of s[lo..hi], split in halves as numpy's pairwise summation is.
RECURSIVE SumInt(_, _, _)
SumInt(s, lo, hi) ==
  IF lo > hi THEN 0
  ELSE IF lo = hi THEN s[lo]
  ELSE LET mid == (lo + hi) \div 2
       IN  SumInt(s, lo, mid) + SumInt(s, mid + 1, hi)

RECURSIVE SumFloat(_, _, _)
SumFloat(s, lo, hi) ==
  IF lo > hi THEN Zero
  ELSE IF lo = hi THEN s[lo]
  ELSE LET mid == (lo + hi) \div 2
       IN  FAdd(SumFloat(s, lo, mid), SumFloat(s, mid + 1, hi))

Values(b) == { b[i] : i \in 1..Len(b) }

Count(b, v) == Cardinality({ i \in 1..Len(b) : b[i] = v })

\* np.mean: add.reduce(arr, dtype=float64) / n; 0/0 = nan for an empty array
\* (numpy warns and does not raise).
np_mean(b) == FDiv(FromInt(SumInt(b, 1, Len(b))), FromInt(Len(b)))

\* np.std: sqrt(mean(abs(arr - arr.mean()) ** 2)).
np_std(b) ==
  LET arrmean == np_mean(b)
      sq      == [ v \in Values(b) |->
                     LET d == FSub(FromInt(v), arrmean) IN FMul(d, d) ]
      x       == [ i \in 1..Len(b) |-> sq[b[i]] ]
  IN  FSqrt(FDiv(SumFloat(x, 1, Len(b)), FromInt(Len(b))))

EmptyReduction(name) ==
  Raised("ValueError",
         <<"zero-size array to reduction operation ", name, " which has no identity">>)

np_max(b) ==
  IF Len(b) = 0 THEN EmptyReduction("maximum")
  ELSE Returned(CHOOSE v \in Values(b) : \A w \in Values(b) : w <= v)

np_min(b) ==
  IF Len(b) = 0 THEN EmptyReduction("minimum")
  ELSE Returned(CHOOSE v \in Values(b) : \A w \in Values(b) : v <= w)

\* The k-th smallest element (k from 1) of a non-empty array: sorted(b)[k-1].
KthSmallest(b, k) ==
  CHOOSE v \in Values(b) :
    /\ Cardinality({ i \in 1..Len(b) : b[i] < v }) < k
    /\ k <= Cardinality({ i \in 1..Len(b) : b[i] <= v })

\* np.median of a non-empty array: the mean of the middle element(s).
np_median(b) ==
  LET n == Len(b)
  IN  IF n % 2 = 1 THEN FromInt(KthSmallest(b, (n + 1) \div 2))
      ELSE FDiv(FromInt(KthSmallest(b, n \div 2) + KthSmallest(b, (n \div 2) + 1)),
                FromInt(2))

HistBins == 50

\* np.histogram(b, bins=HistBins)[0] for a non-empty array: HistBins bins of
\* equal width over [min, max], the last one closed; over [min - 0.5,
\* max + 0.5] when min = max.  Coordinates are doubled to stay in integers.
np_histogram(b) ==
  LET lo    == np_min(b).value
      hi    == np_max(b).value
      first == IF lo = hi THEN 2 * lo - 1 ELSE 2 * lo
      last  == IF lo = hi THEN 2 * hi + 1 ELSE 2 * hi
      bin(v) == IF 2 * v = last THEN HistBins - 1
                ELSE ((2 * v - first) * HistBins) \div (last - first)
      n     == [ v \in Values(b) |-> Count(b, v) ]
      RECURSIVE Total(_)
      Total(S) == IF S = {} THEN 0
                  ELSE LET v == CHOOSE w \in S : TRUE
                       IN  n[v] + Total(S \ {v})
  IN  [ j \in 1..HistBins |-> Total({ v \in Values(b) : bin(v) = j - 1 }) ]

FFTWindow == 512

FFTKeep == 50

\* cos(2 pi j / FFTWindow) * Twiddle[1] for j = 0 .. FFTWindow / 4, rounded.
Twiddle ==
  <<
     8192, 8191, 8190, 8186, 8182, 8177, 8170, 8162, 8153, 8142, 8130, 8117,
     8103, 8088, 8071, 8054, 8035, 8014, 7993, 7970, 7946, 7921, 7895, 7868,
     7839, 7809, 7779, 7746, 7713, 7679, 7643, 7606, 7568, 7529, 7489, 7448,
     7405, 7362, 7317, 7272, 7225, 7177, 7128, 7078, 7027, 6974, 6921, 6867,
     6811, 6755, 6698, 6639, 6580, 6519, 6458, 6396, 6333, 6268, 6203, 6137,
     6070, 6002, 5933, 5863, 5793, 5721, 5649, 5575, 5501, 5427, 5351, 5274,
     5197, 5119, 5040, 4960, 4880, 4799, 4717, 4634, 4551, 4467, 4383, 4297,
     4212, 4125, 4038, 3950, 3862, 3773, 3683, 3593, 3503, 3411, 3320, 3228,
     3135, 3042, 2948, 2854, 2760, 2665, 2570, 2474, 2378, 2282, 2185, 2088,
     1990, 1893, 1795, 1697, 1598, 1499, 1401, 1301, 1202, 1102, 1003,  903,
      803,  703,  603,  502,  402,  302,  201,  101,    0
  >>

\* cos and sin of 2 pi j / FFTWindow, scaled by Twiddle[1], for any j >= 0.
CosTimes[j \in 0..(FFTWindow - 1)] ==
  LET q == FFTWindow \div 4
  IN  IF j <= q THEN Twiddle[j + 1]
      ELSE IF j <= 2 * q THEN -Twiddle[2 * q - j + 1]
      ELSE IF j <= 3 * q THEN -Twiddle[j - 2 * q + 1]
      ELSE Twiddle[4 * q - j + 1]

SinTimes[j \in 0..(FFTWindow - 1)] == CosTimes[(j + 3 * (FFTWindow \div 4)) % FFTWindow]

\* abs(np.fft.fft(w))[k] for k = 0 .. FFTKeep - 1 and a window w of FFTWindow
\* bytes: the discrete Fourier transform summed directly,
\*   X[k] = sum_n w[n] * (cos(2 pi k n / N) - i sin(2 pi k n / N)),
\* and |X[k]| = sqrt(re^2 + im^2).
fft_magnitude(w) ==
  LET N     == Len(w)
      re(k) == SumInt([ n \in 1..N |-> w[n] * CosTimes[(k * (n - 1)) % FFTWindow] ], 1, N)
      im(k) == SumInt([ n \in 1..N |-> -(w[n] * SinTimes[(k * (n - 1)) % FFTWindow]) ], 1, N)
      f(a)  == FDiv(FromInt(a), FromInt(Twiddle[1]))
  IN  [ k \in 1..FFTKeep |->
          LET r == f(re(k - 1))
              i == f(im(k - 1))
          IN  FSqrt(FAdd(FMul(r, r), FMul(i, i))) ]

----------------------------------------------------------------------------
(* The callers' inputs                                                     *)

\* base64.b64encode(b) as a str.
b64encode(b) ==
  LET full == Len(b) \div 3
      rest == Len(b) % 3
      at(i) == IF i <= Len(b) THEN b[i] ELSE 0
      sextet(j) == LET g == 3 * ((j - 1) \div 4)
                       p == (j - 1) % 4
                   IN  IF p = 0 THEN at(g + 1) \div 4
                       ELSE IF p = 1 THEN (at(g + 1) % 4) * 16 + (at(g + 2) \div 16)
                       ELSE IF p = 2 THEN (at(g + 2) % 16) * 4 + (at(g + 3) \div 64)
                       ELSE at(g + 3) % 64
      nchars == 4 * full + (IF rest = 0 THEN 0 ELSE rest + 1)
      npad   == IF rest = 0 THEN 0 ELSE 3 - rest
  IN  [ j \in 1..nchars |-> B64Alphabet[sextet(j) + 1] ] \o [ j \in 1..npad |-> "=" ]

MinSamples == 1000

threshold == 1000000

\* The bytes of a buffer given as runs <<value, count>>.
RECURSIVE BytesOf(_)
BytesOf(runs) ==
  IF runs = <<>> THEN <<>>
  ELSE [ i \in 1..Head(runs)[2] |-> Head(runs)[1] ] \o BytesOf(Tail(runs))

BufferLen(runs) == SumInt([ i \in 1..Len(runs) |-> runs[i][2] ], 1, Len(runs))

\* The sum of the squares of a buffer's bytes, from its runs.
BufferEnergy(runs) ==
  SumInt([ i \in 1..Len(runs) |-> runs[i][2] * runs[i][1] * runs[i][1] ], 1, Len(runs))

\* The data-URL headers callers send: none, a plain one, and one whose media
\* type has a parameter with a comma in it.
HeaderText(hdr) ==
  IF hdr = "wav" THEN << "d","a","t","a",":","a","u","d","i","o","/","w","a","v",";","b","a","s","e","6","4" >>
  ELSE IF hdr = "codecs" THEN << "d","a","t","a",":","a","u","d","i","o","/","w","e","b","m",";","c","o","d","e","c","s","=","o","p","u","s",",","v","o","r","b","i","s",";","b","a","s","e","6","4" >>
  ELSE <<>>

\* The payload as the caller sends it: the base64 text itself, with the last
\* character lost, with a blank in it, with a character outside ASCII after
\* it, or followed by a comma and more base64 text.
FormText(form, payload) ==
  IF form = "truncated"
  THEN IF payload = <<>> THEN <<>> ELSE [ i \in 1..(Len(payload) - 1) |-> payload[i] ]
  ELSE IF form = "blank" THEN <<" ">> \o payload
  ELSE IF form = "nonascii" THEN payload \o <<NonAscii>>
  ELSE IF form = "suffix" THEN payload \o <<",">> \o b64encode(<<255>>)
  ELSE payload

\* An input is [hdr, buf, form]: the header, the buffer's runs, the form.
AudioText(a) ==
  (IF a.hdr = "none" THEN <<>> ELSE HeaderText(a.hdr) \o <<",">>)
    \o FormText(a.form, b64encode(BytesOf(a.buf)))

MaxShort == 3

Slack == 1

Headers == { "none", "wav", "codecs" }

Forms == { "plain", "truncated", "blank", "nonascii", "suffix" }

ShortBuffers ==
  { <<>> }
    \cup { << <<v, n>> >> : v \in {0, 255}, n \in 1..MaxShort }
    \cup { << <<3, 1>>, <<200, 1>>, <<17, 2>> >>, << <<9, 2>>, <<250, 1>> >> }

BoundaryLengths ==
  { FFTWindow + d : d \in (-Slack)..Slack } \cup { MinSamples + d : d \in (-Slack)..Slack }

\* Long buffers of one level, at the lengths around the two thresholds.
LevelBuffers == { << <<v, n>> >> : v \in {0, 31, 32, 255}, n \in BoundaryLengths }

\* MinSamples bytes whose squares sum to exactly the energy threshold, and a
\* buffer of three levels.
MixedBuffers ==
  { << <<100, 100>>, <<0, MinSamples - 100>> >>,
    << <<3, 300>>, <<200, 399>>, <<90, 302>> >> }

Input(h, b, f) == [hdr |-> h, buf |-> b, form |-> f]

AudioInputs ==
  { Input(h, b, f) : h \in Headers, b \in ShortBuffers, f \in Forms }
    \cup { Input("none", b, "plain") : b \in LevelBuffers }
    \cup { Input(h, b, "plain") : h \in {"none", "wav"}, b \in MixedBuffers }

\* The inputs the extractor is called with: the long ones only up to just
\* past the FFT window, and the mixed ones.
ExtractInputs ==
  { a \in AudioInputs : BufferLen(a.buf) <= FFTWindow + Slack \/ a.buf \in MixedBuffers }

\* The inputs enrollment and verification are called with.
VoiceInputs ==
  { a \in ExtractInputs :
      /\ a.form \in {"plain", "truncated"}
      /\ \/ a.hdr = "none" /\ BufferLen(a.buf) <= MaxShort
         \/ a.hdr = "wav" /\ a.buf \in MixedBuffers
         \/ a.hdr = "wav" /\ a.buf = << <<255, 1>> >> }

Text == [ a \in AudioInputs |-> AudioText(a) ]

----------------------------------------------------------------------------
(* The service *)

HasComma(s) == \E i \in 1..Len(s) : s[i] = ","

\* s.split(',')[1] for s with a comma: what lies between the first comma
\* and the second one, or the end of s.
SplitComma1(s) ==
  LET commas == { i \in 1..Len(s) : s[i] = "," }
      first  == CHOOSE i \in commas : \A j \in commas : i <= j
      later  == { i \in commas : i > first }
      second == IF later = {} THEN Len(s) + 1
                ELSE CHOOSE i \in later : \A j \in later : i <= j
  IN  SubSeq(s, first + 1, second - 1)

\* "Remove data URL prefix if present"
remove_data_url_prefix(audio_base64) ==
  IF HasComma(audio_base64) THEN SplitComma1(audio_base64) ELSE audio_base64

target_size == 200

\* Variant: the padding one entry short.
Zeros_short(n) == [ i \in 1..(IF n = 0 THEN 0 ELSE n - 1) |-> Zero ]

Zeros(n) == [ i \in 1..n |-> Zero ]

\* Variant: the FFT also for a buffer of exactly the window's length.
fft_applies_inclusive(byte_array) == Len(byte_array) >= FFTWindow

\* if len(byte_array) > 512
fft_applies(byte_array) == Len(byte_array) > FFTWindow

\* Lines 64-69: pad with zeros or truncate to target_size.
fixed_size(features) ==
  IF Len(features) < target_size
  THEN features \o Zeros(target_size - Len(features))
  ELSE SubSeq(features, 1, target_size)

\* Lines 48-52: mean, std, max, min, median.
statistics_of(byte_array) ==
  << np_mean(byte_array),
     np_std(byte_array),
     FromInt(np_max(byte_array).value),
     FromInt(np_min(byte_array).value),
     np_median(byte_array) >>

\* Lines 55-56: the first 50 counts of the histogram, as floats.
hist_features(hist) == SubSeq([ j \in 1..Len(hist) |-> FromInt(hist[j]) ], 1, 50)

\* Lines 59-62: the FFT magnitudes, for a buffer that is long enough.
fft_features(byte_array) ==
  IF fft_applies(byte_array)
  THEN fft_magnitude(SubSeq(byte_array, 1, FFTWindow))
  ELSE <<>>

\* The body of extract_audio_features' try block once the bytes are decoded;
\* np.max is the first call that refuses an empty array.
features_of_bytes(byte_array) ==
  IF Len(byte_array) = 0 THEN np_max(byte_array)
  ELSE Returned(fixed_size(statistics_of(byte_array)
                             \o hist_features(np_histogram(byte_array))
                             \o fft_features(byte_array)))

\* Variant: the error of the failed step raised as it is.
extraction_failed_unwrapped(e) == e

\* except Exception as e: raise ValueError(f"Audio feature extraction failed: {str(e)}")
extraction_failed(e) ==
  Raised("ValueError", <<"Audio feature extraction failed: ">> \o e.msg)

\* extract_audio_features from the decoding on: lines 36-73.
features_of_decoded(decoded) ==
  IF decoded.raised THEN decoded ELSE features_of_bytes(decoded.value)

extraction_outcome(outcome) ==
  IF outcome.raised THEN extraction_failed(outcome) ELSE outcome

extract_from_payload(payload) ==
  extraction_outcome(features_of_decoded(b64decode(payload)))

extract_audio_features(audio_base64) ==
  extract_from_payload(remove_data_url_prefix(audio_base64))

\* extract_audio_features on the model's inputs, evaluated once for each.
ExtractedTable == [ t \in { Text[a] : a \in ExtractInputs } |-> extract_audio_features(t) ]

Extracted(audio_base64) == ExtractedTable[audio_base64]

\* json.dumps of a list of floats: a JSON array of number literals.  repr
\* of a float is the shortest decimal that reads back as the same float, so
\* a literal is modelled by the float it denotes; nan and the infinities
\* are written NaN, Infinity and -Infinity.
float_repr(x) ==
  IF x.k = "nan" THEN [lit |-> "NaN", m |-> 0, e |-> 0]
  ELSE IF x.k = "inf" THEN [lit |-> "Infinity", m |-> x.m, e |-> 0]
  ELSE [lit |-> "float", m |-> x.m, e |-> x.e]

json_dumps(features) ==
  [json |-> "array", items |-> [ i \in 1..Len(features) |-> float_repr(features[i]) ]]

\* The number a JSON literal reads as; an integer literal reads as a Python
\* int, which np.array turns into the same number.
parse_number(l) ==
  IF l.lit = "NaN" THEN NaN
  ELSE IF l.lit = "Infinity" THEN Inf(l.m)
  ELSE IF l.lit = "int" THEN FromInt(l.m)
  ELSE [k |-> "fin", m |-> l.m, e |-> l.e]

\* json.loads: a text that is no JSON document raises json.JSONDecodeError.
json_loads(text) ==
  IF text.json = "array"
  THEN Returned([ i \in 1..Len(text.items) |-> parse_number(text.items[i]) ])
  ELSE Raised("JSONDecodeError", <<"Expecting value: line 1 column 1 (char 0)">>)

\* encrypt_data and decrypt_data hand over to face_recognition_service, which
\* is not part of this file: symmetric encryption of a string to an opaque
\* token, decrypt(encrypt(s)) = s.  Either raises when the collaborator
\* fails (no key, an import error); decrypt raises on what is no token.
encrypt_data(data, crypto_ok) ==
  IF crypto_ok THEN Returned([token |-> TRUE, plain |-> data])
  ELSE Raised("Exception", <<"encryption failed">>)

decrypt_data(encrypted_data, crypto_ok) ==
  IF ~crypto_ok THEN Raised("Exception", <<"decryption failed">>)
  ELSE IF encrypted_data.token THEN Returned(encrypted_data.plain)
  ELSE Raised("InvalidToken", <<"">>)

\* except Exception as e: raise ValueError(f"Voice enrollment failed: {str(e)}")
enrollment_outcome(outcome) ==
  IF outcome.raised
  THEN Raised("ValueError", <<"Voice enrollment failed: ">> \o outcome.msg)
  ELSE outcome

\* Lines 85-88: serialize and encrypt the features.
encrypt_features(voice_features, crypto_ok) ==
  IF voice_features.raised THEN voice_features
  ELSE encrypt_data(json_dumps(voice_features.value), crypto_ok)

enroll_voice(audio_base64, crypto_ok) ==
  enrollment_outcome(encrypt_features(Extracted(audio_base64), crypto_ok))

\* np.dot of two 1-d arrays: only arrays of one length have a dot product.
np_dot(a, b) ==
  IF Len(a) # Len(b)
  THEN Raised("ValueError",
              <<"shapes (", ToString(Len(a)), ",) and (", ToString(Len(b)),
                ",) not aligned: ", ToString(Len(a)), " (dim 0) != ",
                ToString(Len(b)), " (dim 0)">>)
  ELSE Returned(SumFloat([ i \in 1..Len(a) |-> FMul(a[i], b[i]) ], 1, Len(a)))

\* Variant: the squared norm.
linalg_norm_squared(x) == np_dot(x, x).value

\* np.linalg.norm of a 1-d array: sqrt(x.dot(x)).
linalg_norm(x) == FSqrt(np_dot(x, x).value)

\* Variant: a strict comparison.
is_match_of_strict(similarity, tolerance) == FGt(similarity, FSub(One, tolerance))

\* similarity >= (1 - tolerance)
is_match_of(similarity, tolerance) == FGe(similarity, FSub(One, tolerance))

\* Variant: no lower clamp.
confidence_of_unclamped(similarity) ==
  LET x == FMul(similarity, FromInt(100))
  IN  IF FLt(x, FromInt(100)) THEN x ELSE FromInt(100)

\* max(0, min(100, similarity * 100)): Python's min(a, b) is b when b < a and
\* a otherwise, max(a, b) is b when b > a and a otherwise.
confidence_of(similarity) ==
  LET x     == FMul(similarity, FromInt(100))
      least == IF FLt(x, FromInt(100)) THEN x ELSE FromInt(100)
  IN  IF FGt(least, Zero) THEN least ELSE Zero

\* Variant: the guard only when both norms are zero.
zero_magnitude_both(norm_a, norm_b) == FEq(norm_a, Zero) /\ FEq(norm_b, Zero)

\* if norm_a == 0 or norm_b == 0
zero_magnitude(norm_a, norm_b) == FEq(norm_a, Zero) \/ FEq(norm_b, Zero)

\* Lines 116-119: the cosine similarity from the dot product and the norms.
similarity_of(dot_product, norm_a, norm_b) ==
  IF zero_magnitude(norm_a, norm_b) THEN Zero
  ELSE FDiv(dot_product, FMul(norm_a, norm_b))

\* Lines 122-132: the result dict.
result_of(similarity, tolerance) ==
  [ success    |-> is_match_of(similarity, tolerance),
    confidence |-> confidence_of(similarity),
    similarity |-> similarity,
    threshold  |-> FSub(One, tolerance) ]

compare_with_dot(dot_product, new_features_array, stored_features_array, tolerance) ==
  IF dot_product.raised THEN dot_product
  ELSE Returned(result_of(similarity_of(dot_product.value,
                                        linalg_norm(new_features_array),
                                        linalg_norm(stored_features_array)),
                          tolerance))

\* Lines 111-132: the cosine similarity of the two arrays and the result.
compare_features(new_features_array, stored_features_array, tolerance) ==
  compare_with_dot(np_dot(new_features_array, stored_features_array),
                   new_features_array, stored_features_array, tolerance)

\* except Exception as e: raise ValueError(f"Voice verification failed: {str(e)}")
verification_outcome(outcome) ==
  IF outcome.raised
  THEN Raised("ValueError", <<"Voice verification failed: ">> \o outcome.msg)
  ELSE outcome

\* Lines 106-107: json.loads of the decrypted text.
load_features(decrypted_json) ==
  IF decrypted_json.raised THEN decrypted_json ELSE json_loads(decrypted_json.value)

compare_loaded(new_features, stored_features, tolerance) ==
  IF stored_features.raised THEN stored_features
  ELSE compare_features(new_features.value, stored_features.value, tolerance)

\* Lines 100-132 once the features of the new sample are extracted.
verify_features(new_features, stored_encrypted_features, tolerance, crypto_ok) ==
  IF new_features.raised THEN new_features
  ELSE compare_loaded(new_features,
                      load_features(decrypt_data(stored_encrypted_features, crypto_ok)),
                      tolerance)

verify_voice(audio_base64, stored_encrypted_features, tolerance, crypto_ok) ==
  verification_outcome(verify_features(Extracted(audio_base64),
                                       stored_encrypted_features, tolerance, crypto_ok))

\* np.sum(byte_array.astype(float) ** 2): exact, every term and the sum being
\* integers below 2^53.
energy_of(byte_array) ==
  SumInt([ i \in 1..Len(byte_array) |-> byte_array[i] * byte_array[i] ],
         1, Len(byte_array))

\* Variant: the threshold itself counts as voice.
voice_detected_of_inclusive(energy) == energy >= threshold

\* voice_detected = energy > threshold
voice_detected_of(energy) == energy > threshold

\* Variant: the error raised to the caller.
detection_failed_raising(e) == Raised("ValueError", <<"Error: ">> \o e.msg)

\* except Exception as e: return {"voice_detected": False, "message": f"Error: {str(e)}"}
detection_failed(e) ==
  Returned([ voice_detected |-> FALSE, message |-> <<"Error: ">> \o e.msg ])

\* detect_voice_in_audio from the decoding on: lines 147-175.
\* Lines 166-170: the result for a sample that is long enough.
detection_of(energy) ==
  [ voice_detected |-> voice_detected_of(energy),
    energy         |-> energy,
    message        |-> IF voice_detected_of(energy)
                       THEN <<"Voice detected">>
                       ELSE <<"No voice detected or audio too quiet">> ]

\* Lines 153-170: the length check, the energy and the decision.
detect_in_bytes(byte_array) ==
  IF Len(byte_array) < MinSamples
  THEN [ voice_detected |-> FALSE, message |-> <<"Audio sample too short">> ]
  ELSE detection_of(energy_of(byte_array))

detect_decoded(decoded) ==
  IF decoded.raised THEN detection_failed(decoded)
  ELSE Returned(detect_in_bytes(decoded.value))

detect_from_payload(payload) == detect_decoded(b64decode(payload))

detect_voice_in_audio(audio_base64) ==
  detect_from_payload(remove_data_url_prefix(audio_base64))

\* detect_voice_in_audio on the model's inputs, evaluated once for each.
DetectedTable == [ t \in { Text[a] : a \in AudioInputs } |-> detect_voice_in_audio(t) ]

Detected(audio_base64) == DetectedTable[audio_base64]

----------------------------------------------------------------------------
(* The caller.  The service keeps no state of its own: the state is the  *)
(* call the caller has made and what came back, and the blob the caller   *)
(* has stored to verify against.  A call is made, returns or raises, and  *)
(* the caller goes on to the next one.                                    *)

VARIABLES call, result, store

vars == <<call, result, store>>

\* tolerance: float = 0.65
default_tolerance == FDiv(FromInt(65), FromInt(100))

\* The tolerances callers pass, in hundredths; the range is not validated.
Tolerances == { FDiv(FromInt(p), FromInt(100)) : p \in {-50, 0, 35, 65, 99, 100, 150} }

Garbage == [json |-> "garbage", items |-> <<>>]

Literals(lit, n) == [json |-> "array", items |-> [ i \in 1..n |-> lit ]]

\* What a caller may hold that enroll_voice did not produce: the encryption
\* of a vector of zeros, of a vector of -1s, of vectors of other sizes, of a
\* vector of NaNs, of a text that is no JSON, and a string that is no token.
CraftedNames == { "zeros", "negative", "short", "empty", "nan", "notjson", "nottoken" }

CraftedBlob(c) ==
  IF c = "zeros" THEN [token |-> TRUE, plain |-> Literals(float_repr(Zero), target_size)]
  ELSE IF c = "negative"
  THEN [token |-> TRUE, plain |-> Literals([lit |-> "int", m |-> -1, e |-> 0], target_size)]
  ELSE IF c = "short" THEN [token |-> TRUE, plain |-> Literals(float_repr(Zero), 3)]
  ELSE IF c = "empty" THEN [token |-> TRUE, plain |-> Literals(float_repr(Zero), 0)]
  ELSE IF c = "nan" THEN [token |-> TRUE, plain |-> Literals(float_repr(NaN), target_size)]
  ELSE IF c = "notjson" THEN [token |-> TRUE, plain |-> Garbage]
  ELSE [token |-> FALSE, plain |-> Garbage]

NoInput == Input("none", <<>>, "plain")

Call(o, a, t, ok) == [op |-> o, audio |-> a, tolerance |-> t, crypto_ok |-> ok]

NoCall == Call("none", NoInput, default_tolerance, TRUE)

NoResult == Returned(<<>>)

Stored(f, a, b) == [from |-> f, audio |-> a, blob |-> b]

Init ==
  /\ call = NoCall
  /\ result = NoResult
  /\ store = Stored("nothing", NoInput, CraftedBlob("nottoken"))

Idle == call.op = "none"

Extract(a) ==
  /\ Idle
  /\ call' = Call("extract", a, default_tolerance, TRUE)
  /\ result' = Extracted(Text[a])
  /\ UNCHANGED store

\* The caller stores what enroll_voice returns.
Enroll(a, ok) ==
  /\ Idle
  /\ call' = Call("enroll", a, default_tolerance, ok)
  /\ result' = enroll_voice(Text[a], ok)
  /\ store' = IF result'.raised THEN store ELSE Stored("enroll", a, result'.value)

Verify(a, t, ok) ==
  /\ Idle
  /\ store.from # "nothing"
  /\ call' = Call("verify", a, t, ok)
  /\ result' = verify_voice(Text[a], store.blob, t, ok)
  /\ UNCHANGED store

Detect(a) ==
  /\ Idle
  /\ call' = Call("detect", a, default_tolerance, TRUE)
  /\ result' = Detected(Text[a])
  /\ UNCHANGED store

\* The caller has the result and is free to make the next call.
Return ==
  /\ ~Idle
  /\ call' = NoCall
  /\ result' = NoResult
  /\ UNCHANGED store

\* The stored string is the caller's: it may be anything.
Tamper(c) ==
  /\ Idle
  /\ store' = Stored(c, NoInput, CraftedBlob(c))
  /\ UNCHANGED <<call, result>>

Next ==
  \/ \E a \in ExtractInputs : Extract(a)
  \/ \E a \in VoiceInputs, ok \in BOOLEAN : Enroll(a, ok)
  \/ \E a \in VoiceInputs, t \in Tolerances, ok \in BOOLEAN : Verify(a, t, ok)
  \/ \E a \in AudioInputs : Detect(a)
  \/ Return
  \/ \E c \in CraftedNames : Tamper(c)

Spec == Init /\ [][Next]_vars

----------------------------------------------------------------------------
(* Properties                                                              *)

\* An input whose payload is the base64 text of its buffer, bare or behind a
\* data-URL header without a comma of its own.
WellFormed(a) == a.form = "plain" /\ a.hdr \in {"none", "wav"}

\* What b64decode makes of the text each operation decodes (lines 32-36 and
\* 143-147), for each of the model's inputs.
DecodedTable == [ a \in AudioInputs |-> b64decode(remove_data_url_prefix(Text[a])) ]

\* The text after the first comma of s.
AfterFirstComma(s) ==
  LET first == CHOOSE i \in 1..Len(s) : s[i] = "," /\ \A j \in 1..(i - 1) : s[j] # ","
  IN  IF first = Len(s) THEN <<>> ELSE SubSeq(s, first + 1, Len(s))

IsFloat(x) == x.k \in {"fin", "nan", "inf"}

Returned200 == ~result.raised /\ Len(result.value) = 200 /\ \A i \in 1..200 : IsFloat(result.value[i])

\* C1 as stated: for any input whose payload is valid base64, whatever the
\* decoded length, extract_audio_features returns exactly 200 floats and
\* does not fail.
C1_AnyValidBase64Gives200 ==
  (call.op = "extract" /\ WellFormed(call.audio)) => Returned200

\* C1 amended: for any input whose payload is valid base64 and decodes to at
\* least one byte, extract_audio_features returns exactly 200 floats and does
\* not fail; so it does whenever the text it decodes yields at least one byte.
C1_NonEmptyGives200 ==
  call.op = "extract" =>
    /\ (WellFormed(call.audio) /\ BufferLen(call.audio.buf) >= 1) => Returned200
    /\ (~DecodedTable[call.audio].raised /\ Len(DecodedTable[call.audio].value) >= 1)
         => Returned200

\* A buffer longer than the FFT window has been extracted to 200 values.
C1_Witness ==
  /\ call.op = "extract"
  /\ WellFormed(call.audio)
  /\ BufferLen(call.audio.buf) > 512
  /\ Returned200

RoundingSlack == [k |-> "fin", m |-> Pow2(MantissaBits - 1), e |-> 3 - 2 * MantissaBits]

FAbs(x) == [x EXCEPT !.m = Abs(x.m)]

IsRoundTrip ==
  /\ call.op = "verify"
  /\ store.from = "enroll"
  /\ store.audio = call.audio
  /\ call.tolerance = FDiv(FromInt(65), FromInt(100))
  /\ call.crypto_ok

\* C2: verifying the audio that was enrolled, with the default tolerance 0.65
\* and an encryption that decrypts what it encrypted, returns success = true
\* and similarity = 1.0 up to rounding.
C2_RoundTrip ==
  IsRoundTrip =>
    /\ ~result.raised
    /\ result.value.success = TRUE
    /\ FLe(FAbs(FSub(result.value.similarity, One)), RoundingSlack)

C2_Witness ==
  /\ IsRoundTrip
  /\ BufferLen(call.audio.buf) > 512
  /\ ~result.raised
  /\ result.value.success = TRUE

\* C3 as stated: when the input has a comma the operation decodes all that
\* follows the first comma, and a header H, a comma and a base64 payload P
\* give the result that P alone gives, for extract_audio_features and for
\* detect_voice_in_audio.
C3_PrefixStripped ==
  /\ (call.op = "extract" /\ HasComma(Text[call.audio]))
       => result = extract_from_payload(AfterFirstComma(Text[call.audio]))
  /\ (call.op = "detect" /\ HasComma(Text[call.audio]))
       => result = detect_from_payload(AfterFirstComma(Text[call.audio]))
  /\ (call.op = "extract" /\ call.audio.hdr # "none" /\ call.audio.form = "plain")
       => result = Extracted(Text[Input("none", call.audio.buf, "plain")])
  /\ (call.op = "detect" /\ call.audio.hdr # "none" /\ call.audio.form = "plain")
       => result = Detected(Text[Input("none", call.audio.buf, "plain")])

\* C4: detect_voice_in_audio never raises; when the decoding fails it
\* returns voice_detected = false and a message with the error's text in it.
C4_DetectNeverRaises ==
  call.op = "detect" =>
    /\ ~result.raised
    /\ DecodedTable[call.audio].raised =>
         /\ result.value.voice_detected = FALSE
         /\ result.value.message = <<"Error: ">> \o DecodedTable[call.audio].msg
    /\ (call.audio.form = "nonascii" /\ call.audio.hdr # "codecs") =>
         /\ result.value.voice_detected = FALSE
         /\ result.value.message =
              <<"Error: ", "string argument should contain only ASCII characters">>

C4_Witness ==
  /\ call.op = "detect"
  /\ DecodedTable[call.audio].raised
  /\ DecodedTable[call.audio].type = "binascii.Error"
  /\ ~result.raised
  /\ result.value.voice_detected = FALSE

\* C5: for a decodable buffer voice_detected is true exactly when the buffer
\* has at least 1000 bytes and the squares of its bytes sum to more than
\* 1,000,000; below 1000 bytes the result is voice_detected = false and the
\* message "Audio sample too short", with no energy field.
C5_VadDecision ==
  (call.op = "detect" /\ WellFormed(call.audio)) =>
    /\ ~result.raised
    /\ result.value.voice_detected =
         (BufferLen(call.audio.buf) >= 1000 /\ BufferEnergy(call.audio.buf) > 1000000)
    /\ BufferLen(call.audio.buf) < 1000 =>
         result.value = [ voice_detected |-> FALSE,
                          message        |-> <<"Audio sample too short">> ]
    /\ BufferLen(call.audio.buf) >= 1000 =>
         result.value.energy = BufferEnergy(call.audio.buf)

\* 1000 bytes whose squares sum to exactly 1,000,000: no voice.
C5_Witness ==
  /\ call.op = "detect"
  /\ WellFormed(call.audio)
  /\ BufferLen(call.audio.buf) = 1000
  /\ BufferEnergy(call.audio.buf) = 1000000
  /\ result.value.voice_detected = FALSE
  /\ "energy" \in DOMAIN result.value

\* C6: whenever verify_voice returns a result, success is true exactly when
\* similarity >= 1 - tolerance, threshold is 1 - tolerance, and a
\* verification that succeeds succeeds with every larger tolerance too.
C6_DecisionRule ==
  (call.op = "verify" /\ ~result.raised) =>
    /\ result.value.threshold = FSub(One, call.tolerance)
    /\ result.value.success = FGe(result.value.similarity, FSub(One, call.tolerance))
    /\ result.value.success = TRUE =>
         \A t \in Tolerances :
           FGe(t, call.tolerance) =>
             LET again == verify_voice(Text[call.audio], store.blob, t, call.crypto_ok)
             IN  ~again.raised /\ again.value.success = TRUE

\* The similarity is exactly the threshold, and the verification succeeds.
C6_Witness ==
  /\ call.op = "verify"
  /\ ~result.raised
  /\ result.value.similarity = FSub(One, call.tolerance)
  /\ result.value.success = TRUE

AllZero(x) == Len(x) = target_size /\ \A i \in 1..Len(x) : x[i] = Zero

ZeroGuarded(r, tolerance) ==
  /\ ~r.raised
  /\ r.value.similarity = Zero
  /\ FLt(tolerance, One) => r.value.success = FALSE

\* C7: when the stored vector or the probe vector is all zeros, verify_voice
\* does not fail, the similarity is 0, and for every tolerance below 1
\* success is false.
C7_ZeroMagnitude ==
  (call.op = "verify" /\ call.crypto_ok /\ ~Extracted(Text[call.audio]).raised) =>
    /\ store.from = "zeros" =>
         /\ ~result.raised
         /\ ZeroGuarded(result, call.tolerance)
    /\ ZeroGuarded(compare_features(Zeros(target_size),
                                    Extracted(Text[call.audio]).value,
                                    call.tolerance),
                   call.tolerance)
    /\ ZeroGuarded(compare_features(Zeros(target_size), Zeros(target_size),
                                    call.tolerance),
                   call.tolerance)

C7_Witness ==
  /\ call.op = "verify"
  /\ store.from = "zeros"
  /\ AllZero(json_loads(store.blob.plain).value)
  /\ FLt(call.tolerance, One)
  /\ ~result.raised
  /\ result.value.similarity = Zero
  /\ result.value.success = FALSE

Hundred == FromInt(100)

\* C8: in every result of verify_voice the confidence lies in [0, 100] and
\* is similarity * 100 clipped to that range: 0 for a negative similarity,
\* 100 for a similarity above 1.
C8_ConfidenceClamp ==
  (call.op = "verify" /\ ~result.raised) =>
    LET sim  == result.value.similarity
        conf == result.value.confidence
    IN  /\ FLe(Zero, conf) /\ FLe(conf, Hundred)
        /\ FLt(sim, Zero) => conf = Zero
        /\ FGt(sim, One) => conf = Hundred
        /\ (FLe(Zero, sim) /\ FLe(sim, One)) =>
             conf = (IF FGt(FMul(sim, Hundred), Hundred) THEN Hundred
                     ELSE FMul(sim, Hundred))

\* A negative similarity with confidence 0.
C8_Witness ==
  /\ call.op = "verify"
  /\ ~result.raised
  /\ FLt(result.value.similarity, Zero)
  /\ result.value.confidence = Zero

OperationPrefix(op) ==
  IF op = "extract" THEN "Audio feature extraction failed: "
  ELSE IF op = "enroll" THEN "Voice enrollment failed: "
  ELSE "Voice verification failed: "

ExtractionPrefix == "Audio feature extraction failed: "

\* The steps of a call that fail: the decoding, np.max on an empty buffer,
\* the encryption or decryption, and reading or comparing the stored vector.
DecodeFailed(a) == DecodedTable[a].raised

EmptyBuffer(a) == ~DecodedTable[a].raised /\ Len(DecodedTable[a].value) = 0

ExtractionFails(a) == DecodeFailed(a) \/ EmptyBuffer(a)

StoredFails ==
  store.from \in {"nottoken", "notjson", "short", "empty"}

StepFailed ==
  \/ ExtractionFails(call.audio)
  \/ call.op \in {"enroll", "verify"} /\ ~call.crypto_ok
  \/ call.op = "verify" /\ StoredFails

\* C9: every failure inside extract_audio_features, enroll_voice or
\* verify_voice reaches the caller as a ValueError whose message is the
\* operation's prefix followed by the message of the failure; no result is
\* returned when a step has failed and no other error type is raised.
C9_WrappedErrors ==
  call.op \in {"extract", "enroll", "verify"} =>
    /\ StepFailed => result.raised
    /\ result.raised =>
         /\ StepFailed
         /\ result.type = "ValueError"
         /\ Head(result.msg) = OperationPrefix(call.op)
         /\ Len(result.msg) >= 2
    /\ DecodeFailed(call.audio) =>
         result.msg =
           (IF call.op = "extract" THEN <<>> ELSE <<OperationPrefix(call.op)>>)
             \o <<ExtractionPrefix>> \o DecodedTable[call.audio].msg
    /\ (~ExtractionFails(call.audio) /\ ~call.crypto_ok /\ call.op = "enroll") =>
         result.msg = <<OperationPrefix("enroll"), "encryption failed">>
    /\ (~ExtractionFails(call.audio) /\ ~call.crypto_ok /\ call.op = "verify") =>
         result.msg = <<OperationPrefix("verify"), "decryption failed">>

\* Verification against a stored vector of the wrong size has raised.
C9_Witness ==
  /\ call.op = "verify"
  /\ store.from = "short"
  /\ call.crypto_ok
  /\ ~ExtractionFails(call.audio)
  /\ result.raised
  /\ result.type = "ValueError"
  /\ Head(result.msg) = "Voice verification failed: "

\* The inputs whose buffers are longer than the FFT window.
WindowOf(buf) == SubSeq(BytesOf(buf), 1, 512)

WindowSpectrum ==
  [ buf \in { a.buf : a \in { x \in ExtractInputs : BufferLen(x.buf) > 512 } } |->
      fft_magnitude(WindowOf(buf)) ]

\* C10: for a non-empty buffer of at most 512 bytes there is no FFT: every
\* slot from the one after the histogram on is 0.0.  For a longer buffer 50
\* FFT magnitudes of the first 512 bytes follow the histogram, the first of
\* them the sum of those bytes, and the rest is 0.0.
C10_FeatureLayout ==
  (call.op = "extract" /\ WellFormed(call.audio) /\ BufferLen(call.audio.buf) >= 1) =>
    /\ ~result.raised
    /\ BufferLen(call.audio.buf) <= 512 =>
         \A i \in 56..200 : result.value[i] = Zero
    /\ BufferLen(call.audio.buf) > 512 =>
         /\ \A k \in 1..50 : result.value[55 + k] = WindowSpectrum[call.audio.buf][k]
         /\ result.value[56] = FromInt(SumInt(WindowOf(call.audio.buf), 1, 512))
         /\ \A i \in 106..200 : result.value[i] = Zero

\* A buffer of exactly 512 bytes that are not zero, and no FFT value.
C10_Witness ==
  /\ call.op = "extract"
  /\ WellFormed(call.audio)
  /\ BufferLen(call.audio.buf) = 512
  /\ BufferEnergy(call.audio.buf) > 0
  /\ ~result.raised
  /\ result.value[56] = Zero

====
